---- MODULE Spec2Model ----
(***************************************************************************)
(* A model of vue-useApi (@ametie/vue-muza-use):                           *)
(*   - the single-request orchestrator useApi        (SpecApi),            *)
(*   - the 401 token-refresh response interceptor    (SpecRefresh),        *)
(*   - the batch orchestrator useApiBatch            (SpecBatch).          *)
(* Every suspension point of the code (an await on the transport, a timer, *)
(* a callback) separates two actions; the code between two suspension      *)
(* points is one atomic action, as on the single-threaded event loop.      *)
(***************************************************************************)
EXTENDS Integers, Sequences, FiniteSets, TLC

\* ------------------------------------------------------------------ bounds
\* execute() calls (attempts) of one useApi instance
MaxAttempts == 3
MaxGlobalAborts == 2
MaxCalls == 3
MaxRetry == 2
MaxUrl == 2
MaxInterval == 2
MaxUserData == 2
\* values the owner passes to setData, apart from the response data of the attempts
UserData == (MaxAttempts + 1)..(MaxAttempts + MaxUserData)
UrlValues == 0..MaxUrl
Calls == 1..MaxCalls

Attempts == 1..MaxAttempts

\* =========================================================================
\*  PART 1 - useApi: one instance of the single-request orchestrator
\* =========================================================================
VARIABLES
    data,            \* state.data: 0 = initialData (null), a = response data of attempt a
    response,        \* state.response: 0 = null, a = raw response of attempt a
    loading,         \* state.loading
    error,           \* state.error: 0 = null, a = the ApiError produced by attempt a
    statusCode,      \* state.statusCode: 0 = null, a = status of attempt a's outcome
    abortController, \* abortController.value: 0 = null, a = the controller of attempt a
    att,             \* per attempt: "none" | "inflight" (awaiting axios.request) | "done"
    aborted,         \* per attempt: controller.signal.aborted
    nAtt,            \* number of executeRequest() calls made so far
    pollTimer,       \* the pollTimer handle: "null" | "live" (its timer is pending) | "dead" (cleared)
    leaked,          \* pending poll timers the handle no longer refers to
    pollInterval,    \* getPollConfig().interval (0 = polling off)
    pollSeen,        \* the interval the watcher of `poll` has run for
    interval,        \* `interval` as the finally block read it last: the delay of
                     \* the timer it armed
    whenHidden,      \* getPollConfig().whenHidden
    docHidden,       \* document.hidden
    hasDocument,     \* typeof document !== "undefined"
    nFinish,         \* calls of onFinish
    nOnError,        \* calls of onError
    nGlobalErr,      \* calls of the global error handler
    useGlobalAbort,  \* option useGlobalAbort
    abortCount,      \* abortCount.value of the global abort registry
    globalHandlers,  \* <<attempt, currentCount>>: the globalAbortHandler closures
                     \* registered on the registry's current signal
    origin,          \* per attempt: what called executeRequest: "none" (not started),
                     \* "call" (execute() by user or watch), "poll" (a poll timer),
                     \* "visible" (the visibilitychange handler),
                     \* "watch" (the watcher of `poll`)
    startedHidden,   \* the attempts started while document.hidden was true
    debounce,        \* option debounce (0 = execute is executeRequest itself)
    timeoutId,       \* timeoutId of debounceFn: 0 = null, c = the timer set by call c
    nCalls,          \* calls of the debounced execute made so far
    disposed,        \* the scope that owns the instance has been disposed
    retry,           \* option retry (0 = false)
    requestUrl,      \* what the url source resolves to now (0 = undefined or empty)
    returned,        \* per attempt: the promise executeRequest returned: "none" (not
                     \* called), "pending", "data" (resolved with response.data),
                     \* "null" (resolved with null), "rejected"
    hooks,           \* per attempt: the lifecycle hooks invoked, in order
    sent,            \* per attempt: the url of each axios.request call made
    dCall            \* per call of the debounced execute:
                     \*   timer: "none" | "pending" | "cleared" | "fired"
                     \*   src: what made the call (as in origin)
                     \*   attempt: the executeRequest call its timer made (0 = none)
                     \*   resolved: the promise returned to the caller is resolved

apiVars == <<data, response, loading, error, statusCode, abortController, att,
             aborted, nAtt, pollTimer, leaked, pollInterval, pollSeen, interval,
             whenHidden, docHidden, hasDocument, nFinish, nOnError, nGlobalErr,
             useGlobalAbort, abortCount,
             globalHandlers, origin, startedHidden, debounce, timeoutId, nCalls,
             disposed, retry, requestUrl, returned, hooks, sent, dCall>>

outcomeVars == <<returned, hooks, sent>>

debounceVars == <<debounce, timeoutId, nCalls, dCall>>

watchVars == <<pollSeen>>

envVars == <<hasDocument>>

historyVars == <<origin, startedHidden>>

globalVars == <<useGlobalAbort, abortCount, globalHandlers>>

ApiInit ==
    /\ data = 0
    /\ response = 0
    /\ loading = FALSE
    /\ error = 0
    /\ statusCode = 0
    /\ abortController = 0
    /\ att = [a \in Attempts |-> "none"]
    /\ aborted = [a \in Attempts |-> FALSE]
    /\ nAtt = 0
    /\ pollTimer = "null"
    /\ leaked = 0
    /\ pollInterval \in 0..MaxInterval
    /\ pollSeen = pollInterval
    /\ interval = 0
    /\ whenHidden \in BOOLEAN
    /\ docHidden = FALSE
    /\ hasDocument \in BOOLEAN
    /\ nFinish = 0
    /\ nOnError = 0
    /\ nGlobalErr = 0
    /\ useGlobalAbort \in BOOLEAN
    /\ abortCount = 0
    /\ globalHandlers = {}
    /\ origin = [a \in Attempts |-> "none"]
    /\ startedHidden = {}
    /\ debounce \in {0, 1}
    /\ timeoutId = 0
    /\ nCalls = 0
    /\ disposed = FALSE
    /\ retry \in {0, MaxRetry}
    /\ requestUrl \in UrlValues
    /\ returned = [a \in Attempts |-> "none"]
    /\ hooks = [a \in Attempts |-> <<>>]
    /\ sent = [a \in Attempts |-> <<>>]
    /\ dCall = [c \in Calls |->
                   [timer |-> "none", src |-> "none", attempt |-> 0, resolved |-> FALSE]]

\* abortController.value?.abort(): the current attempt's signal becomes aborted.
AbortedAfterAbort ==
    IF abortController = 0 THEN aborted ELSE [aborted EXCEPT ![abortController] = TRUE]

\* clearTimeout(pollTimer) on a non-null handle: the timer it names no longer fires;
\* the handle itself is not reset.
ClearedTimer(h) == IF h = "live" THEN "dead" ELSE h

\* `poll` has changed and its watcher (flush "pre": a job run in a microtask of
\* the same tick, before any timer or event) has not run yet. The watchers of a
\* disposed scope are stopped.
WatcherPending == ~disposed /\ pollSeen # pollInterval

\* The polling logic of the finally block: with interval > 0 and the document
\* visible (or whenHidden), pollTimer = setTimeout(...). A timer the handle named
\* before stays pending, unreferenced.  h, l: the handle and the leaked count
\* before this code runs.
ShouldPoll == pollInterval > 0 /\ (whenHidden \/ (hasDocument /\ ~docHidden))

ArmPoll(h, l) ==
    IF ShouldPoll
    THEN /\ pollTimer' = "live"
         /\ leaked' = IF h = "live" THEN l + 1 ELSE l
    ELSE /\ pollTimer' = h
         /\ leaked' = l

\* The non-cancelled path of the finally block: setLoading(false), onFinish, polling.
FinallyNotCancelled(h, l) ==
    /\ loading' = FALSE
    /\ nFinish' = nFinish + 1
    /\ interval' = pollInterval
    /\ ArmPoll(h, l)

\* The global abort logic of executeRequest for attempt a: with useGlobalAbort the
\* registry's current signal (never aborted: abort() replaces the controller in the
\* same turn) gets a handler that has captured currentCount = abortCount.value.
Subscription(a) == IF useGlobalAbort THEN {<<a, abortCount>>} ELSE {}

\* finally: subscribedSignal.removeEventListener("abort", globalAbortHandler)
Unsubscribed(a) == {h \in globalHandlers : h[1] # a}

\* The catch block rethrowing instead of returning
\* `if (!requestUrl) throw new Error("Request URL is missing")`
RequestUrlNeverMissing == FALSE
RequestUrlMissing == requestUrl = 0

\* The url source gets a new value (a ref or getter the caller owns).
SetUrl(u) ==
    /\ u # requestUrl
    /\ requestUrl' = u
    /\ UNCHANGED <<data, response, loading, error, statusCode, abortController, att,
                   aborted, nAtt, pollTimer, leaked, pollInterval, whenHidden,
                   docHidden, nFinish, interval, nOnError, nGlobalErr, globalVars, historyVars,
                   debounceVars, disposed, retry, outcomeVars>>

ReturnRethrown == "rejected"

\* The catch block ends in `return null`, for a cancelled and for a reported error
ReturnOnFailure == "null"

\* executeRequest() up to its first await.  h, l: the poll handle and leaked count
\* on entry.  requestUrl = toValue(url) is read on entry.
ExecuteRequest(h, l) ==
    LET a == nAtt + 1
        urlOk == ~RequestUrlMissing
        h1 == ClearedTimer(h)
    IN  /\ nAtt < MaxAttempts
        /\ nAtt' = a
        /\ abortController' = a
        /\ aborted' = AbortedAfterAbort
        /\ IF urlOk
           THEN \* onBefore, setLoading(true), setError(null), then await axios.request
                /\ att' = [att EXCEPT ![a] = "inflight"]
                /\ loading' = TRUE
                /\ error' = 0
                /\ pollTimer' = h1
                /\ leaked' = l
                /\ hooks' = [hooks EXCEPT ![a] = <<"onBefore">>]
                /\ sent' = [sent EXCEPT ![a] = <<requestUrl>>]
                /\ returned' = [returned EXCEPT ![a] = "pending"]
                /\ UNCHANGED <<statusCode, nFinish, interval, nOnError, nGlobalErr>>
           ELSE \* throw new Error("Request URL is missing"): caught in the same turn
                /\ att' = [att EXCEPT ![a] = "done"]
                /\ error' = a
                /\ statusCode' = a
                /\ nOnError' = nOnError + 1
                /\ nGlobalErr' = nGlobalErr + 1
                /\ hooks' = [hooks EXCEPT ![a] = <<"onBefore", "onError", "onFinish">>]
                /\ returned' = [returned EXCEPT ![a] = ReturnOnFailure]
                /\ FinallyNotCancelled(h1, l)
                /\ UNCHANGED sent
        /\ globalHandlers' = IF urlOk THEN globalHandlers \cup Subscription(a)
                             ELSE globalHandlers
        /\ UNCHANGED <<data, response, pollInterval, whenHidden, useGlobalAbort,
                       abortCount, disposed, retry, requestUrl>>

\* The next attempt is recorded as started by src with document.hidden = hidden.
Originates(src, hidden) ==
    /\ origin' = [origin EXCEPT ![nAtt + 1] = src]
    /\ startedHidden' = IF hidden THEN startedHidden \cup {nAtt + 1} ELSE startedHidden

\* clearTimeout(timeoutId) on a non-null handle: a timer that has fired already
\* is not affected.
ClearedCalls ==
    IF timeoutId # 0 /\ dCall[timeoutId].timer = "pending"
    THEN [dCall EXCEPT ![timeoutId].timer = "cleared"]
    ELSE dCall

\* The function debounceFn returns, called by src: a new promise, the timer the
\* handle names is cleared, and timeoutId = setTimeout(...).
DebouncedCall(src) ==
    /\ nCalls < MaxCalls
    /\ nCalls' = nCalls + 1
    /\ timeoutId' = nCalls + 1
    /\ dCall' = [ClearedCalls EXCEPT ![nCalls + 1] =
                     [timer |-> "pending", src |-> src, attempt |-> 0,
                      resolved |-> FALSE]]
    /\ UNCHANGED debounce

\* execute(), called by src with the poll handle h and leaked count l: the
\* debounced wrapper when debounce > 0, executeRequest itself otherwise.
ExecuteCall(h, l, src, hidden) ==
    IF debounce > 0
    THEN /\ DebouncedCall(src)
         /\ pollTimer' = h
         /\ leaked' = l
         /\ UNCHANGED <<data, response, loading, error, statusCode, abortController,
                        att, aborted, nAtt, pollInterval, whenHidden, nFinish, interval,
                        nOnError, nGlobalErr, globalVars, historyVars, disposed,
                        retry, requestUrl, outcomeVars>>
    ELSE /\ ExecuteRequest(h, l)
         /\ Originates(src, hidden)
         /\ UNCHANGED debounceVars

\* A call of execute() by a watch source or by the component that owns the
\* instance; both are gone once the scope is disposed.
Execute ==
    /\ ~disposed
    /\ ExecuteCall(pollTimer, leaked, "call", docHidden)
    /\ UNCHANGED docHidden

\* The timer of call c of the debounced execute fires: `await fn(...args)` runs
\* executeRequest up to its await. An executeRequest that ends in the same turn
\* (missing URL) lets the callback go on: resolve(result), timeoutId = null.
DebounceFire(c) ==
    /\ ~WatcherPending
    /\ dCall[c].timer = "pending"
    /\ LET urlOk == ~RequestUrlMissing IN
          /\ ExecuteRequest(pollTimer, leaked)
          /\ dCall' = [dCall EXCEPT ![c] = [timer |-> "fired", src |-> @.src,
                                             attempt |-> nAtt + 1,
                                             resolved |-> ~urlOk]]
          /\ timeoutId' = IF urlOk THEN timeoutId ELSE 0
    /\ Originates(dCall[c].src, docHidden)
    /\ UNCHANGED <<docHidden, debounce, nCalls>>

\* The rest of the debounce timer's callback once executeRequest of attempt a has
\* returned: resolve(result); timeoutId = null.
DebounceContinuation(a) ==
    IF \E c \in Calls : dCall[c].attempt = a
    THEN /\ dCall' = [c \in Calls |->
                         IF dCall[c].attempt = a THEN [dCall[c] EXCEPT !.resolved = TRUE]
                         ELSE dCall[c]]
         /\ timeoutId' = 0
         /\ UNCHANGED <<debounce, nCalls>>
    ELSE UNCHANGED debounceVars

\* setData that leaves error as it is
SetDataKeepingError(newData, fullResponse) ==
    /\ data' = newData
    /\ error' = error
    /\ response' = IF fullResponse # 0 THEN fullResponse ELSE response

\* state.setData(newData, fullResponse): data, error = null, and response when a
\* full response is passed
SetData(newData, fullResponse) ==
    /\ data' = newData
    /\ error' = 0
    /\ response' = IF fullResponse # 0 THEN fullResponse ELSE response

\* setData(x) called by the owner of the instance
SetDataCall(x) ==
    /\ SetData(x, 0)
    /\ UNCHANGED <<loading, statusCode, abortController, att, aborted, nAtt,
                   pollTimer, leaked, pollInterval, whenHidden, docHidden, nFinish,
                   interval, nOnError, nGlobalErr, globalVars, historyVars,
                   debounceVars, disposed, retry, requestUrl, outcomeVars>>

\* The transport call of attempt a resolves. The success path tests no
\* cancellation flag: setData, setStatusCode, onSuccess, then finally.
Resolve(a) ==
    /\ att[a] = "inflight"
    /\ att' = [att EXCEPT ![a] = "done"]
    /\ SetData(a, a)
    /\ statusCode' = a
    /\ hooks' = [hooks EXCEPT ![a] = @ \o <<"onSuccess", "onFinish">>]
    /\ returned' = [returned EXCEPT ![a] = "data"]
    /\ FinallyNotCancelled(pollTimer, leaked)
    /\ globalHandlers' = Unsubscribed(a)
    /\ DebounceContinuation(a)
    /\ UNCHANGED <<abortController, aborted, nAtt, pollInterval, whenHidden,
                   docHidden, nOnError, nGlobalErr, useGlobalAbort, abortCount,
                   origin, startedHidden, disposed, retry, requestUrl, sent>>

\* wasCancelled: the catch block's test.
WasCancelled(a, code) == aborted[a] \/ code = "ERR_CANCELED"

\* The transport call of attempt a rejects with an error of the given code.
\* The transport rejects with ERR_CANCELED only for an aborted signal.
Reject(a, code) ==
    /\ att[a] = "inflight"
    /\ code = "ERR_CANCELED" => aborted[a]
    /\ att' = [att EXCEPT ![a] = "done"]
    /\ IF WasCancelled(a, code)
       THEN UNCHANGED <<error, statusCode, loading, nFinish, interval, nOnError, nGlobalErr,
                        pollTimer, leaked, hooks>>
       ELSE /\ error' = a
            /\ statusCode' = a
            /\ nOnError' = nOnError + 1
            /\ nGlobalErr' = nGlobalErr + 1
            /\ hooks' = [hooks EXCEPT ![a] = @ \o <<"onError", "onFinish">>]
            /\ FinallyNotCancelled(pollTimer, leaked)
    /\ returned' = [returned EXCEPT ![a] = ReturnOnFailure]
    /\ globalHandlers' = Unsubscribed(a)
    /\ DebounceContinuation(a)
    /\ UNCHANGED <<data, response, abortController, aborted, nAtt, pollInterval,
                   whenHidden, docHidden, useGlobalAbort, abortCount, origin,
                   startedHidden, disposed, retry, requestUrl, sent>>

\* abort(msg): clearTimeout(pollTimer), abort the current controller, drop it.
AbortEffect ==
    /\ pollTimer' = ClearedTimer(pollTimer)
    /\ aborted' = AbortedAfterAbort
    /\ abortController' = 0

Abort ==
    /\ AbortEffect
    /\ UNCHANGED <<data, response, loading, error, statusCode, att, nAtt, leaked,
                   pollInterval, whenHidden, docHidden, nFinish, interval, nOnError, nGlobalErr>>
    /\ UNCHANGED <<globalVars, historyVars, debounceVars, disposed, retry, requestUrl,
                   outcomeVars>>

\* The owning scope is disposed: abort("Scope disposed") runs, the visibilitychange
\* listener is removed and the watchers of the scope stop.
Dispose ==
    /\ ~disposed
    /\ disposed' = TRUE
    /\ AbortEffect
    /\ UNCHANGED <<data, response, loading, error, statusCode, att, nAtt, leaked,
                   pollInterval, whenHidden, docHidden, nFinish, interval, nOnError, nGlobalErr>>
    /\ UNCHANGED <<globalVars, historyVars, debounceVars, retry, requestUrl, outcomeVars>>

\* reset(): abort(), state.reset(), setLoading(false).
Reset ==
    /\ AbortEffect
    /\ data' = 0
    /\ loading' = FALSE
    /\ error' = 0
    /\ statusCode' = 0
    /\ response' = 0
    /\ UNCHANGED <<att, nAtt, leaked, pollInterval, whenHidden, docHidden,
                   nFinish, interval, nOnError, nGlobalErr>>
    /\ UNCHANGED <<globalVars, historyVars, debounceVars, disposed, retry, requestUrl,
                   outcomeVars>>

\* The poll source (a ref or getter the caller owns) gets a new interval.
PollChange(i) ==
    /\ i # pollInterval
    /\ ~WatcherPending
    /\ pollInterval' = i
    /\ UNCHANGED <<data, response, loading, error, statusCode, abortController, att,
                   aborted, nAtt, pollTimer, leaked, whenHidden, docHidden, nFinish,
                   interval, nOnError, nGlobalErr, globalVars, historyVars,
                   debounceVars, disposed, retry, requestUrl, outcomeVars, pollSeen>>

\* The watcher of `poll` runs: the handle's timer is cleared and the handle set to
\* null; with the new interval > 0 and loading false, execute().
PollWatch ==
    /\ WatcherPending
    /\ pollSeen' = pollInterval
    /\ IF pollInterval > 0 /\ ~loading
       THEN ExecuteCall("null", leaked, "watch", docHidden)
       ELSE /\ pollTimer' = "null"
            /\ UNCHANGED <<data, response, loading, error, statusCode, abortController,
                           att, aborted, nAtt, leaked, pollInterval, whenHidden,
                           nFinish, interval, nOnError, nGlobalErr>>
            /\ UNCHANGED <<globalVars, historyVars, debounceVars, disposed, retry,
                           requestUrl, outcomeVars>>
    /\ UNCHANGED docHidden

\* The poll timer's callback: pollTimer = null, then execute() unless hidden.
PollCallback(h, l) ==
    /\ IF whenHidden \/ ~hasDocument \/ ~docHidden
       THEN ExecuteCall(h, l, "poll", docHidden)
       ELSE /\ pollTimer' = h
            /\ leaked' = l
            /\ UNCHANGED <<data, response, loading, error, statusCode, abortController,
                           att, aborted, nAtt, pollInterval, whenHidden,
                           nFinish, interval, nOnError, nGlobalErr>>
            /\ UNCHANGED <<globalVars, historyVars, debounceVars, disposed, retry, requestUrl,
                           outcomeVars>>
    /\ UNCHANGED docHidden

\* The timer the handle names fires.
PollFire ==
    /\ ~WatcherPending
    /\ pollTimer = "live"
    /\ PollCallback("null", leaked)

\* A pending timer the handle no longer names fires; it too sets pollTimer = null,
\* which leaves a timer the handle named pending and unreferenced.
LeakedPollFire ==
    /\ ~WatcherPending
    /\ leaked > 0
    /\ PollCallback("null", IF pollTimer = "live" THEN leaked ELSE leaked - 1)

\* visibilitychange: the document becomes hidden (the handler returns at once) or
\* visible (catch-up: interval > 0, no timer handle, not loading -> execute()).
Hide ==
    /\ ~WatcherPending
    /\ hasDocument
    /\ ~docHidden
    /\ docHidden' = TRUE
    /\ UNCHANGED <<data, response, loading, error, statusCode, abortController, att,
                   aborted, nAtt, pollTimer, leaked, pollInterval, whenHidden,
                   nFinish, interval, nOnError, nGlobalErr>>
    /\ UNCHANGED <<globalVars, historyVars, debounceVars, disposed, retry, requestUrl,
                   outcomeVars>>

Show ==
    /\ ~WatcherPending
    /\ hasDocument
    /\ docHidden
    /\ docHidden' = FALSE
    /\ IF ~disposed /\ pollInterval > 0 /\ pollTimer = "null" /\ ~loading
       THEN ExecuteCall(pollTimer, leaked, "visible", FALSE)
       ELSE UNCHANGED <<data, response, loading, error, statusCode, abortController,
                        att, aborted, nAtt, pollTimer, leaked, pollInterval,
                        whenHidden, nFinish, interval, nOnError, nGlobalErr, useGlobalAbort,
                        abortCount, globalHandlers, origin, startedHidden,
                        debounce, timeoutId, nCalls, dCall, disposed, retry, requestUrl,
                        returned, hooks, sent>>

\* globalAbortHandler of a closure that captured currentCount, run when the
\* registry's signal fires "abort": it aborts its attempt's controller if
\* abortCount.value, read at that moment, still equals currentCount.
GlobalAbortHandlerAborts(currentCount, countNow) == countNow = currentCount

\* The registry keeping its controller after abort(): the handlers stay registered
KeptControllerHandlers == globalHandlers

\* `abortController = new AbortController()`: the handlers registered on the
\* signal getSignal() returns from now on
NewControllerHandlers == {}

\* abort() of the global abort registry: abortCount.value++, then
\* abortController.abort() runs every handler registered on the signal, then a new
\* controller replaces the aborted one (its signal has no handlers).
GlobalAbort ==
    /\ abortCount < MaxGlobalAborts
    /\ abortCount' = abortCount + 1
    /\ aborted' = [a \in Attempts |->
                      \/ aborted[a]
                      \/ \E h \in globalHandlers :
                            h[1] = a /\ GlobalAbortHandlerAborts(h[2], abortCount + 1)]
    /\ globalHandlers' = NewControllerHandlers
    /\ UNCHANGED <<data, response, loading, error, statusCode, abortController, att,
                   nAtt, pollTimer, leaked, pollInterval, whenHidden, docHidden,
                   nFinish, interval, nOnError, nGlobalErr, useGlobalAbort, origin,
                   startedHidden, debounce, timeoutId, nCalls, dCall, disposed,
                   retry, requestUrl, returned, hooks, sent>>

\* =========================================================================
\*  PART 2 - the response interceptor of setupInterceptors: refresh on 401
\*  (configured as in the playground: refreshPayload is a function,
\*   onTokenRefreshed and onTokenRefreshFailed are set, default token extraction)
\* =========================================================================
\* requests issued through the axios instance
NumReq == 3

Req == 1..NumReq

\* the access token stored before any refresh, and those a refresh response may carry
OldToken == 1

NewTokens == {2, 3}

VARIABLES
    rq,            \* per request: st, url, mode (authMode), retry (_retry), hdr (Authorization
                   \*   token, 0 = no header), tok (the initiator's local accessToken),
                   \*   reissued (the interceptor has called axiosInstance(originalRequest))
    failedQueue,   \* failedQueue: the queued requests, in push order
    isRefreshing,  \* isRefreshing
    accessToken,   \* tokenManager.getAccessToken(): 0 = none
    nRefreshCalls, \* calls of axiosInstance.post(refreshUrl, ...)
    nFailedCb,     \* calls of onTokenRefreshFailed
    lastRetries    \* the retries issued by the latest successful refresh handler, in order

refVars == <<rq, failedQueue, isRefreshing, accessToken, nRefreshCalls, nFailedCb,
             lastRetries>>

RefInit ==
    /\ rq = [r \in Req |-> [st |-> "new", url |-> "api", mode |-> "default",
                            retry |-> FALSE, hdr |-> 0, tok |-> 0,
                            reissued |-> FALSE]]
    /\ failedQueue = <<>>
    /\ isRefreshing = FALSE
    /\ accessToken = OldToken
    /\ nRefreshCalls = 0
    /\ nFailedCb = 0
    /\ lastRetries = <<>>

\* The request interceptor without the authMode test
RequestInterceptorAnyMode(mode, h, stored) == stored

\* The request interceptor: a public request is left alone; otherwise the header
\* is set from the stored token, or deleted when none is stored.
RequestInterceptor(mode, h, stored) == IF mode = "public" THEN h ELSE stored

\* axiosInstance(config): the request passes the request interceptor and is sent.
Transmit(req, h, stored) ==
    [req EXCEPT !.st = "inflight", !.hdr = RequestInterceptor(req.mode, h, stored)]

\* axiosInstance(originalRequest) called by the response interceptor: the same
\* config object, with the flags it carries, is sent again.
Reissue(req, h, stored) == [Transmit(req, h, stored) EXCEPT !.reissued = TRUE]

\* A request is issued; url "refresh" is a URL that includes refreshUrl.
Send(r, url, mode) ==
    /\ rq[r].st = "new"
    /\ rq' = [rq EXCEPT ![r] = Transmit([@ EXCEPT !.url = url, !.mode = mode], 0, accessToken)]
    /\ UNCHANGED <<failedQueue, isRefreshing, accessToken, nRefreshCalls, nFailedCb,
                   lastRetries>>

\* response => response
Respond2xx(r) ==
    /\ rq[r].st = "inflight"
    /\ rq' = [rq EXCEPT ![r].st = "resolved"]
    /\ UNCHANGED <<failedQueue, isRefreshing, accessToken, nRefreshCalls, nFailedCb,
                   lastRetries>>

\* processQueue(error, null) / processQueue(null, token) on queue q over requests f:
\* with a truthy error every entry rejects; else with a token every entry sets its
\* header and re-issues its request; else the entries are dropped unsettled.
ProcessQueue(f, q, errTruthy, token, stored) ==
    [r \in Req |->
        IF \E i \in 1..Len(q) : q[i] = r
        THEN IF errTruthy THEN [f[r] EXCEPT !.st = "rejected"]
             ELSE IF token # 0 THEN Reissue(f[r], token, stored)
             ELSE f[r]
        ELSE f[r]]

\* The first test alone: only a status other than 401 is propagated
PropagatedNon401(req, status) == status # 401

\* The two tests that end the rejected handler with Promise.reject(error): the
\* status is not 401 or the request is marked _retry; authMode is public or optional.
Propagated(req, status) ==
    \/ status # 401
    \/ req.retry
    \/ req.mode \in {"public", "optional"}

\* The rejected handler of the response interceptor for a failed response that
\* starts no refresh: not a 401, or _retry, or public/optional, or the refresh URL,
\* or a refresh is in progress (the request is queued).
RespondError(r, status) ==
    /\ rq[r].st = "inflight"
    /\ \/ Propagated(rq[r], status)
       \/ rq[r].url = "refresh"
       \/ isRefreshing
    /\ IF Propagated(rq[r], status)
       THEN /\ rq' = [rq EXCEPT ![r].st = "rejected"]
            /\ UNCHANGED <<failedQueue, isRefreshing, accessToken, nFailedCb>>
       ELSE IF rq[r].url = "refresh"
       THEN /\ isRefreshing' = FALSE
            /\ rq' = [ProcessQueue(rq, failedQueue, TRUE, 0, accessToken)
                         EXCEPT ![r].st = "rejected"]
            /\ failedQueue' = <<>>
            /\ accessToken' = 0
            /\ nFailedCb' = nFailedCb + 1
       ELSE /\ rq' = [rq EXCEPT ![r].st = "queued"]
            /\ failedQueue' = Append(failedQueue, r)
            /\ UNCHANGED <<isRefreshing, accessToken, nFailedCb>>
    /\ UNCHANGED <<nRefreshCalls, lastRetries>>

\* A 401 that makes the request the refresh initiator: _retry = true,
\* isRefreshing = true, then await refreshPayload().
StartRefresh(r) ==
    /\ rq[r].st = "inflight"
    /\ ~rq[r].retry
    /\ rq[r].mode = "default"
    /\ rq[r].url = "api"
    /\ ~isRefreshing
    /\ rq' = [rq EXCEPT ![r].st = "payload", ![r].retry = TRUE]
    /\ isRefreshing' = TRUE
    /\ UNCHANGED <<failedQueue, accessToken, nRefreshCalls, nFailedCb, lastRetries>>

\* refreshPayload() resolved: axiosInstance.post(refreshUrl, payload, ...) is called.
PostRefresh(r) ==
    /\ rq[r].st = "payload"
    /\ rq' = [rq EXCEPT ![r].st = "refreshing"]
    /\ nRefreshCalls' = nRefreshCalls + 1
    /\ UNCHANGED <<failedQueue, isRefreshing, accessToken, nFailedCb, lastRetries>>

\* The catch and finally blocks of the initiator r, the caught value truthy or not.
RefreshCatch(r, errTruthy) ==
    /\ rq' = [ProcessQueue(rq, failedQueue, errTruthy, 0, accessToken)
                 EXCEPT ![r].st = "rejected"]
    /\ failedQueue' = <<>>
    /\ accessToken' = 0
    /\ nFailedCb' = nFailedCb + 1
    /\ isRefreshing' = FALSE
    /\ UNCHANGED <<nRefreshCalls, lastRetries>>

\* An awaited user callback (refreshPayload, onTokenRefreshed) throws or rejects;
\* the value thrown is the callback's choice and may be falsy.
CallbackThrows(r, errTruthy) ==
    /\ rq[r].st \in {"payload", "callback"}
    /\ RefreshCatch(r, errTruthy)

\* The refresh call fails: an AxiosError (network, 5xx, 401 - the call is public,
\* so its own 401 is propagated to the catch block), or a response without an
\* access token (new Error("No access token in refresh response")).
RefreshFails(r) ==
    /\ rq[r].st = "refreshing"
    /\ RefreshCatch(r, TRUE)

\* The refresh call resolves with access token t: setTokens, then await
\* onTokenRefreshed(response).
RefreshResponds(r, t) ==
    /\ rq[r].st = "refreshing"
    /\ rq' = [rq EXCEPT ![r].st = "callback", ![r].tok = t]
    /\ accessToken' = t
    /\ UNCHANGED <<failedQueue, isRefreshing, nRefreshCalls, nFailedCb, lastRetries>>

\* The retries a successful handler issues: the queue in order, then the initiator.
RetryOrder(q, r) == Append(q, r)

\* onTokenRefreshed resolved: processQueue(null, accessToken), the initiator's
\* header is set and its request re-issued; finally isRefreshing = false.
DrainAndRetry(r) ==
    /\ rq[r].st = "callback"
    /\ LET t == rq[r].tok
           order == RetryOrder(failedQueue, r)
           after == [ProcessQueue(rq, failedQueue, FALSE, t, accessToken)
                        EXCEPT ![r] = Reissue(rq[r], t, accessToken)]
       IN  /\ rq' = after
           /\ lastRetries' = [i \in 1..Len(order) |->
                                 [req |-> order[i], hdr |-> after[order[i]].hdr]]
    /\ failedQueue' = <<>>
    /\ isRefreshing' = FALSE
    /\ UNCHANGED <<accessToken, nRefreshCalls, nFailedCb>>

\* =========================================================================
\*  PART 3 - useApiBatch: one instance of the batch orchestrator
\*  (no item callbacks configured; the URL list does not change)
\* =========================================================================
\* length of the URL list, and execute() calls (runs) of the instance
MaxUrls == 3

MaxRuns == 2

\* the longest URL list for which an execute() that overlaps a pending run is explored
MaxOverlapUrls == 2

Runs == 1..MaxRuns

VARIABLES
    settled,          \* option settled
    concurrency,      \* option concurrency: 0 = undefined
    nUrls,            \* getUrls().length; item indices are 0..nUrls-1
    nRuns,            \* execute() calls made so far
    runSt,            \* per run: "idle", "running", "resolved", "rejected" (the promise of execute())
    item,             \* per run and index: "unclaimed", "inflight", "done"
    results,          \* per run: the results array of executeWithConcurrency
    outs,             \* per run and index: how the item's request ended for executeRequest:
                      \*   "none" (not yet), the transport outcome, or "aborted" (signal aborted)
    succeededCount,   \* per run: succeededCount
    failedCount,      \* per run: failedCount
    currentIndex,     \* per run: currentIndex of the bounded branch
    rejected,         \* per run: the value execute() rejected with
    firstFailure,     \* per run: the error of the first settled item that carries one
    overlapped,       \* per run: another execute() ran while this run was pending
    touched,          \* per run: abort() or reset() was called while this run was pending
    wasReset,         \* per run: reset() was called while this run was pending
    requested,        \* per run and index: transport calls issued for the item so far
    bData,            \* data
    bLoading,         \* loading
    bError,           \* error
    bErrors,          \* errors
    progress,         \* progress
    isAborted,        \* isAborted
    abortControllers, \* abortControllers: the controllers of items <<run, index>>
    ctrlAborted       \* the controllers of in-flight items whose signal is aborted

batchVars == <<settled, concurrency, nUrls, nRuns, runSt, item, results, outs,
               succeededCount, failedCount, currentIndex, rejected, firstFailure,
               overlapped, touched, wasReset, requested, bData, bLoading, bError,
               bErrors,
               progress, isAborted, abortControllers, ctrlAborted>>

Idx == 0..(nUrls - 1)

\* urls[i]
UrlOf(i) == i + 1

NoError == [code |-> "none", run |-> 0, index |-> -1]

\* the error object of item i of run k
ItemError(code, k, i) == [code |-> code, run |-> k, index |-> i]

AllFailedError(k) == [code |-> "BATCH_ALL_FAILED", run |-> k, index |-> -1]

\* an empty slot of new Array(urls.length)
Hole == [url |-> 0, index |-> -1, success |-> FALSE, data |-> 0, error |-> NoError]

\* Math.round(completed / total * 100), or 0 for an empty list
Percentage(completed, total) ==
    IF total > 0 THEN (200 * completed + total) \div (2 * total) ELSE 0

\* the value updateProgress(succeeded, failed) stores
Progress(succeeded, failed) ==
    [completed |-> succeeded + failed, total |-> nUrls,
     percentage |-> Percentage(succeeded + failed, nUrls),
     succeeded |-> succeeded, failed |-> failed]

BatchInit ==
    /\ settled \in BOOLEAN
    /\ concurrency \in 0..(MaxUrls - 1)
    /\ nUrls \in 0..MaxUrls
    /\ nRuns = 0
    /\ runSt = [k \in Runs |-> "idle"]
    /\ item = [k \in Runs |-> [i \in Idx |-> "unclaimed"]]
    /\ results = [k \in Runs |-> [i \in Idx |-> Hole]]
    /\ outs = [k \in Runs |-> [i \in Idx |-> "none"]]
    /\ succeededCount = [k \in Runs |-> 0]
    /\ failedCount = [k \in Runs |-> 0]
    /\ currentIndex = [k \in Runs |-> 0]
    /\ rejected = [k \in Runs |-> NoError]
    /\ firstFailure = [k \in Runs |-> NoError]
    /\ overlapped = [k \in Runs |-> FALSE]
    /\ touched = [k \in Runs |-> FALSE]
    /\ wasReset = [k \in Runs |-> FALSE]
    /\ requested = [k \in Runs |-> [i \in Idx |-> 0]]
    /\ bData = <<>>
    /\ bLoading = FALSE
    /\ bError = NoError
    /\ bErrors = <<>>
    /\ progress = [completed |-> 0, total |-> 0, percentage |-> 0,
                   succeeded |-> 0, failed |-> 0]
    /\ isAborted = FALSE
    /\ abortControllers = {}
    /\ ctrlAborted = {}

\* !limit || limit >= urls.length
Unbounded == concurrency = 0 \/ concurrency >= nUrls

\* the run still has work outstanding: its promise is pending or an item is in flight
Pending(k) == runSt[k] = "running" \/ \E i \in Idx : item[k][i] = "inflight"

\* ItemOf with success taken from execute() having returned at all
ItemOfReturned(k, i, out) ==
    [url |-> UrlOf(i), index |-> i, success |-> TRUE,
     data |-> IF out = "data" THEN UrlOf(i) ELSE 0,
     error |-> IF out = "error" THEN ItemError("API", k, i) ELSE NoError]

\* the item executeRequest returns for a transport call that ended with out
ItemOf(k, i, out) ==
    [url |-> UrlOf(i), index |-> i, success |-> out = "data",
     data |-> IF out = "data" THEN UrlOf(i) ELSE 0,
     error |-> IF out = "error" THEN ItemError("API", k, i) ELSE NoError]

AbortedItem(k, i) ==
    [url |-> UrlOf(i), index |-> i, success |-> FALSE, data |-> 0,
     error |-> ItemError("ABORTED", k, i)]

\* executeRequest(url, index, signal) once execute({signal}) has returned
BatchExecuteRequest(k, i, out) ==
    IF <<k, i>> \in ctrlAborted THEN AbortedItem(k, i) ELSE ItemOf(k, i, out)

\* Throws without the strict-mode branch
ThrowsNever(result) == FALSE

\* !settled && !result.success && result.error
Throws(result) == ~settled /\ ~result.success /\ result.error # NoError

\* results.every(r => !r.success): every() skips the empty slots
AllFailed(res) == \A i \in DOMAIN res : ~res[i].success

\* successfulData over a data array
SuccessfulData(d) == {i \in DOMAIN d : d[i].success /\ d[i].data # 0}

\* Array.from({ length: Math.min(limit, urls.length) }, ...) with one worker for
\* every URL: the length taken from urls.length alone
WorkersPerUrl == nUrls

\* The number of requests execute() issues before its first await: one per URL
\* (unbounded branch) or one per worker, Math.min(limit, urls.length) workers
Workers ==
    IF Unbounded THEN nUrls
    ELSE IF concurrency < nUrls THEN concurrency ELSE nUrls

\* execute(): the state is reset and executeWithConcurrency runs up to its await:
\* every item (unbounded) or the first `limit` items (one per worker) are requested.
BatchExecute ==
    /\ nRuns < MaxRuns
    /\ nUrls <= MaxOverlapUrls \/ \A m \in Runs : ~Pending(m)
    /\ LET k == nRuns + 1
           claimed == Workers
       IN  /\ nRuns' = k
           /\ runSt' = [runSt EXCEPT ![k] = "running"]
           /\ item' = [item EXCEPT ![k] =
                          [i \in Idx |-> IF i < claimed THEN "inflight" ELSE "unclaimed"]]
           /\ currentIndex' = [currentIndex EXCEPT ![k] = IF Unbounded THEN 0 ELSE claimed]
           /\ requested' = [requested EXCEPT ![k] =
                               [i \in Idx |-> IF i < claimed THEN 1 ELSE 0]]
           /\ abortControllers' = {<<k, i>> : i \in 0..(claimed - 1)}
           /\ overlapped' = [j \in Runs |->
                                IF j = k THEN \E m \in Runs : Pending(m)
                                ELSE overlapped[j] \/ Pending(j)]
    /\ isAborted' = FALSE
    /\ bLoading' = TRUE
    /\ bError' = NoError
    /\ bErrors' = <<>>
    /\ bData' = <<>>
    /\ progress' = Progress(0, 0)
    /\ UNCHANGED <<settled, concurrency, nUrls, results, outs, succeededCount,
                   failedCount, rejected, firstFailure, touched, wasReset,
                   ctrlAborted>>

\* abort(): isAborted = true, every listed controller is aborted, the list emptied
AbortedControllers ==
    ctrlAborted \cup {c \in abortControllers : item[c[1]][c[2]] = "inflight"}

\* The signal of the request executeRequest hands to axios.request: the object
\* literal spreads the caller's config first and sets signal: controller.signal
\* after it, so the instance's own controller wins over config.signal.
RequestSignal(configSignal, ownSignal) == ownSignal

\* The transport call of item i of run k has been told to abort: the signal it was
\* issued with is aborted. The item's useApi instance is used for this one call
\* only, so its own controller is never aborted; the item's batch controller is
\* aborted when it is in ctrlAborted.
TransportCancelled(k, i) ==
    /\ RequestSignal("item", "own") = "item"
    /\ <<k, i>> \in ctrlAborted

\* The transport call of item i of run k ends with out ("data": resolved with a
\* body, "nullbody": resolved with a null body, "error": rejected). executeRequest
\* returns the item; the .then callback (unbounded) or the worker's loop body
\* (bounded) stores and counts it, the worker claims the next index or stops, and
\* the run's promise settles when Promise.all / Promise.allSettled does.
CompleteItem(k, i, out) ==
    /\ i \in Idx
    /\ item[k][i] = "inflight"
    /\ TransportCancelled(k, i) => out = "error"
    /\ LET result == BatchExecuteRequest(k, i, out)
           s == succeededCount[k] + (IF result.success THEN 1 ELSE 0)
           f == failedCount[k] + (IF result.success THEN 0 ELSE 1)
           throws == Throws(result)
           aborting == ~Unbounded /\ throws
           claims == ~Unbounded /\ ~throws /\ currentIndex[k] < nUrls /\ ~isAborted
           next == currentIndex[k]
           item1 == [item[k] EXCEPT ![i] = "done"]
           item2 == IF claims THEN [item1 EXCEPT ![next] = "inflight"] ELSE item1
           res2 == [results[k] EXCEPT ![i] = result]
           ctrls1 == IF aborting THEN {} ELSE abortControllers
           ctrls2 == IF claims THEN ctrls1 \cup {<<k, next>>} ELSE ctrls1
           rejects == runSt[k] = "running" /\ throws
           resolves == /\ runSt[k] = "running"
                       /\ ~throws
                       /\ \A j \in Idx : item2[j] # "inflight"
       IN  /\ item' = [item EXCEPT ![k] = item2]
           /\ results' = [results EXCEPT ![k] = res2]
           /\ outs' = [outs EXCEPT ![k][i] =
                          IF <<k, i>> \in ctrlAborted THEN "aborted" ELSE out]
           /\ succeededCount' = [succeededCount EXCEPT ![k] = s]
           /\ failedCount' = [failedCount EXCEPT ![k] = f]
           /\ currentIndex' = [currentIndex EXCEPT ![k] = IF claims THEN next + 1 ELSE @]
           /\ requested' = IF claims THEN [requested EXCEPT ![k][next] = @ + 1]
                           ELSE requested
           /\ touched' = IF aborting THEN [j \in Runs |-> touched[j] \/ Pending(j)]
                         ELSE touched
           /\ bErrors' = IF result.error # NoError THEN Append(bErrors, result.error)
                         ELSE bErrors
           /\ firstFailure' = IF result.error # NoError /\ firstFailure[k] = NoError
                              THEN [firstFailure EXCEPT ![k] = result.error]
                              ELSE firstFailure
           /\ progress' = Progress(s, f)
           /\ isAborted' = (isAborted \/ aborting)
           /\ ctrlAborted' = (IF aborting THEN AbortedControllers ELSE ctrlAborted)
                                  \ {<<k, i>>}
           /\ IF rejects
              THEN /\ runSt' = [runSt EXCEPT ![k] = "rejected"]
                   /\ rejected' = [rejected EXCEPT ![k] = result.error]
                   /\ bError' = result.error
                   /\ bLoading' = FALSE
                   /\ abortControllers' = {}
                   /\ UNCHANGED bData
              ELSE IF resolves
              THEN /\ runSt' = [runSt EXCEPT ![k] = "resolved"]
                   /\ bData' = res2
                   /\ bError' = IF AllFailed(res2) /\ nUrls > 0
                                THEN AllFailedError(k) ELSE bError
                   /\ bLoading' = FALSE
                   /\ abortControllers' = {}
                   /\ UNCHANGED rejected
              ELSE /\ abortControllers' = ctrls2
                   /\ UNCHANGED <<runSt, rejected, bError, bLoading, bData>>
    /\ UNCHANGED <<settled, concurrency, nUrls, nRuns, overlapped, wasReset>>

\* execute() of an empty URL list continues after its await with nothing requested.
SettleEmpty(k) ==
    /\ runSt[k] = "running"
    /\ \A i \in Idx : item[k][i] # "inflight"
    /\ runSt' = [runSt EXCEPT ![k] = "resolved"]
    /\ bData' = results[k]
    /\ bError' = IF AllFailed(results[k]) /\ nUrls > 0 THEN AllFailedError(k) ELSE bError
    /\ bLoading' = FALSE
    /\ abortControllers' = {}
    /\ UNCHANGED <<settled, concurrency, nUrls, nRuns, item, results, outs,
                   succeededCount, failedCount, currentIndex, rejected, firstFailure,
                   overlapped, touched, wasReset, requested, bErrors, progress,
                   isAborted,
                   ctrlAborted>>

\* abort() called by the user
BatchAbort ==
    /\ isAborted' = TRUE
    /\ ctrlAborted' = AbortedControllers
    /\ abortControllers' = {}
    /\ touched' = [k \in Runs |-> touched[k] \/ Pending(k)]
    /\ UNCHANGED <<settled, concurrency, nUrls, nRuns, runSt, item, results, outs,
                   succeededCount, failedCount, currentIndex, rejected, firstFailure,
                   overlapped, wasReset, requested, bData, bLoading, bError, bErrors,
                   progress>>

\* reset()
BatchReset ==
    /\ isAborted' = TRUE
    /\ ctrlAborted' = AbortedControllers
    /\ abortControllers' = {}
    /\ bLoading' = FALSE
    /\ bError' = NoError
    /\ bErrors' = <<>>
    /\ bData' = <<>>
    /\ progress' = [completed |-> 0, total |-> nUrls, percentage |-> 0,
                    succeeded |-> 0, failed |-> 0]
    /\ touched' = [k \in Runs |-> touched[k] \/ Pending(k)]
    /\ wasReset' = [k \in Runs |-> wasReset[k] \/ Pending(k)]
    /\ UNCHANGED <<settled, concurrency, nUrls, nRuns, runSt, item, results, outs,
                   succeededCount, failedCount, currentIndex, rejected, firstFailure,
                   overlapped, requested>>

\* =========================================================================
\*  The three specifications; each steps one subsystem and leaves the others idle
\* =========================================================================
vars == <<apiVars, refVars, batchVars>>

\* The options of the instances a specification leaves idle.
ApiIdle ==
    /\ pollInterval = 0 /\ ~whenHidden /\ useGlobalAbort /\ debounce = 0 /\ retry = 0
    /\ requestUrl = 1 /\ hasDocument

BatchIdle == settled /\ concurrency = 0 /\ nUrls = 0

Init == ApiInit /\ RefInit /\ BatchInit

ApiNext ==
    \/ Execute /\ UNCHANGED <<watchVars, envVars, refVars, batchVars>>
    \/ (\E u \in {0, 1} : SetUrl(u)) /\ UNCHANGED <<watchVars, envVars, refVars, batchVars>>
    \/ (\E a \in Attempts : Resolve(a)) /\ UNCHANGED <<watchVars, envVars, refVars, batchVars>>
    \/ (\E a \in Attempts : \E code \in {"ERR_CANCELED", "ERR_NETWORK"} : Reject(a, code))
           /\ UNCHANGED <<watchVars, envVars, refVars, batchVars>>
    \/ Abort /\ UNCHANGED <<watchVars, envVars, refVars, batchVars>>
    \/ Reset /\ UNCHANGED <<watchVars, envVars, refVars, batchVars>>
    \/ PollFire /\ UNCHANGED <<watchVars, envVars, refVars, batchVars>>
    \/ LeakedPollFire /\ UNCHANGED <<watchVars, envVars, refVars, batchVars>>
    \/ Hide /\ UNCHANGED <<watchVars, envVars, refVars, batchVars>>
    \/ Show /\ UNCHANGED <<watchVars, envVars, refVars, batchVars>>
    \/ Dispose /\ UNCHANGED <<watchVars, envVars, refVars, batchVars>>

\* An instance without polling: calls, completions, abort(), reset() and the
\* global abort registry.
OutcomeNext ==
    \/ Execute /\ UNCHANGED <<watchVars, envVars, refVars, batchVars>>
    \/ (\E u \in UrlValues : SetUrl(u)) /\ UNCHANGED <<watchVars, envVars, refVars, batchVars>>
    \/ (\E a \in Attempts : Resolve(a)) /\ UNCHANGED <<watchVars, envVars, refVars, batchVars>>
    \/ (\E a \in Attempts : \E code \in {"ERR_CANCELED", "ERR_NETWORK"} : Reject(a, code))
           /\ UNCHANGED <<watchVars, envVars, refVars, batchVars>>
    \/ Abort /\ UNCHANGED <<watchVars, envVars, refVars, batchVars>>
    \/ Reset /\ UNCHANGED <<watchVars, envVars, refVars, batchVars>>
    \/ GlobalAbort /\ UNCHANGED <<watchVars, envVars, refVars, batchVars>>

\* An instance with debounce > 0; the global abort registry is left alone.
DebounceNext ==
    \/ Execute /\ UNCHANGED <<watchVars, envVars, refVars, batchVars>>
    \/ (\E c \in Calls : DebounceFire(c)) /\ UNCHANGED <<watchVars, envVars, refVars, batchVars>>
    \/ (\E a \in Attempts : Resolve(a)) /\ UNCHANGED <<watchVars, envVars, refVars, batchVars>>
    \/ (\E a \in Attempts : \E code \in {"ERR_CANCELED", "ERR_NETWORK"} : Reject(a, code))
           /\ UNCHANGED <<watchVars, envVars, refVars, batchVars>>
    \/ Abort /\ UNCHANGED <<watchVars, envVars, refVars, batchVars>>
    \/ Reset /\ UNCHANGED <<watchVars, envVars, refVars, batchVars>>
    \/ PollFire /\ UNCHANGED <<watchVars, envVars, refVars, batchVars>>
    \/ LeakedPollFire /\ UNCHANGED <<watchVars, envVars, refVars, batchVars>>
    \/ Hide /\ UNCHANGED <<watchVars, envVars, refVars, batchVars>>
    \/ Show /\ UNCHANGED <<watchVars, envVars, refVars, batchVars>>
    \/ Dispose /\ UNCHANGED <<watchVars, envVars, refVars, batchVars>>

PollNext ==
    \/ Execute /\ UNCHANGED <<watchVars, envVars, refVars, batchVars>>
    \/ (\E i \in 0..MaxInterval : PollChange(i)) /\ UNCHANGED <<envVars, refVars, batchVars>>
    \/ PollWatch /\ UNCHANGED <<envVars, refVars, batchVars>>
    \/ (\E a \in Attempts : Resolve(a)) /\ UNCHANGED <<watchVars, envVars, refVars, batchVars>>
    \/ (\E a \in Attempts : \E code \in {"ERR_CANCELED", "ERR_NETWORK"} : Reject(a, code))
          /\ UNCHANGED <<watchVars, envVars, refVars, batchVars>>
    \/ Abort /\ UNCHANGED <<watchVars, envVars, refVars, batchVars>>
    \/ PollFire /\ UNCHANGED <<watchVars, envVars, refVars, batchVars>>
    \/ LeakedPollFire /\ UNCHANGED <<watchVars, envVars, refVars, batchVars>>

\* An instance in a host without a document: no visibilitychange events
ServerNext ==
    \/ Execute /\ UNCHANGED <<watchVars, envVars, refVars, batchVars>>
    \/ (\E a \in Attempts : Resolve(a)) /\ UNCHANGED <<watchVars, envVars, refVars, batchVars>>
    \/ (\E a \in Attempts : \E code \in {"ERR_CANCELED", "ERR_NETWORK"} : Reject(a, code))
          /\ UNCHANGED <<watchVars, envVars, refVars, batchVars>>
    \/ Abort /\ UNCHANGED <<watchVars, envVars, refVars, batchVars>>
    \/ Reset /\ UNCHANGED <<watchVars, envVars, refVars, batchVars>>
    \/ PollFire /\ UNCHANGED <<watchVars, envVars, refVars, batchVars>>
    \/ LeakedPollFire /\ UNCHANGED <<watchVars, envVars, refVars, batchVars>>
    \/ Dispose /\ UNCHANGED <<watchVars, envVars, refVars, batchVars>>

\* An instance whose owner also writes data with setData
StateNext ==
    \/ Execute /\ UNCHANGED <<watchVars, envVars, refVars, batchVars>>
    \/ (\E x \in UserData : SetDataCall(x)) /\ UNCHANGED <<watchVars, envVars, refVars, batchVars>>
    \/ (\E a \in Attempts : Resolve(a)) /\ UNCHANGED <<watchVars, envVars, refVars, batchVars>>
    \/ (\E a \in Attempts : \E code \in {"ERR_CANCELED", "ERR_NETWORK"} : Reject(a, code))
          /\ UNCHANGED <<watchVars, envVars, refVars, batchVars>>
    \/ Reset /\ UNCHANGED <<watchVars, envVars, refVars, batchVars>>

RefNext ==
    \/ (\E r \in Req : \E url \in {"api", "refresh"} :
           \E mode \in {"default", "public", "optional"} : Send(r, url, mode))
           /\ UNCHANGED <<apiVars, batchVars>>
    \/ (\E r \in Req : Respond2xx(r)) /\ UNCHANGED <<apiVars, batchVars>>
    \/ (\E r \in Req : \E status \in {401, 500} : RespondError(r, status))
           /\ UNCHANGED <<apiVars, batchVars>>
    \/ (\E r \in Req : StartRefresh(r)) /\ UNCHANGED <<apiVars, batchVars>>
    \/ (\E r \in Req : PostRefresh(r)) /\ UNCHANGED <<apiVars, batchVars>>
    \/ (\E r \in Req : \E errTruthy \in BOOLEAN : CallbackThrows(r, errTruthy))
           /\ UNCHANGED <<apiVars, batchVars>>
    \/ (\E r \in Req : RefreshFails(r)) /\ UNCHANGED <<apiVars, batchVars>>
    \/ (\E r \in Req : \E t \in NewTokens : RefreshResponds(r, t))
           /\ UNCHANGED <<apiVars, batchVars>>
    \/ (\E r \in Req : DrainAndRetry(r)) /\ UNCHANGED <<apiVars, batchVars>>

BatchNext ==
    \/ BatchExecute /\ UNCHANGED <<apiVars, refVars>>
    \/ (\E k \in Runs : \E i \in 0..(MaxUrls - 1) :
           \E out \in {"data", "nullbody", "error"} : CompleteItem(k, i, out))
           /\ UNCHANGED <<apiVars, refVars>>
    \/ (\E k \in Runs : SettleEmpty(k)) /\ UNCHANGED <<apiVars, refVars>>
    \/ BatchAbort /\ UNCHANGED <<apiVars, refVars>>
    \/ BatchReset /\ UNCHANGED <<apiVars, refVars>>

InitApi == Init /\ BatchIdle /\ hasDocument /\ debounce = 0 /\ retry = 0 /\ useGlobalAbort /\ requestUrl <= 1
           /\ pollInterval <= 1

InitOutcome == Init /\ BatchIdle /\ hasDocument /\ debounce = 0 /\ pollInterval = 0 /\ ~whenHidden

InitDebounce == Init /\ BatchIdle /\ hasDocument /\ debounce = 1 /\ useGlobalAbort /\ retry = 0 /\ requestUrl <= 1
                /\ pollInterval <= 1

InitRefresh == Init /\ ApiIdle /\ BatchIdle

InitBatch == Init /\ ApiIdle

\* execute is executeRequest (debounce = 0, the default)
SpecApi == InitApi /\ [][ApiNext]_vars

\* an instance without polling, with and without the retry option
SpecOutcome == InitOutcome /\ [][OutcomeNext]_vars

\* an instance whose poll source changes at run time
InitPoll == Init /\ BatchIdle /\ hasDocument /\ debounce = 0 /\ retry = 0 /\ useGlobalAbort /\ requestUrl = 1
            /\ ~whenHidden

SpecPoll == InitPoll /\ [][PollNext]_vars

\* an instance with default options whose owner calls setData
InitState == Init /\ ApiIdle /\ BatchIdle

SpecState == InitState /\ [][StateNext]_vars

\* an instance in a host without a document (server-side rendering, a worker)
InitServer == Init /\ BatchIdle /\ ~hasDocument /\ debounce = 0 /\ retry = 0 /\ useGlobalAbort
              /\ requestUrl = 1 /\ pollInterval <= 1

SpecServer == InitServer /\ [][ServerNext]_vars

\* execute is the debounced wrapper
SpecDebounce == InitDebounce /\ [][DebounceNext]_vars

SpecRefresh == InitRefresh /\ [][RefNext]_vars

\* every pending await of the refresh flow eventually settles
SpecRefreshLive == SpecRefresh /\ WF_vars(RefNext)

SpecBatch == InitBatch /\ [][BatchNext]_vars

\* ---------------------------------------------------------------- claims, part 1
\* The step in which the await of attempt a ends (its completion handler runs).
Completes(a) == att[a] = "inflight" /\ att'[a] = "done"

\* C1: once a later execute() has started, the completion of an earlier attempt,
\* whether its transport call resolved or rejected, writes none of data, error,
\* statusCode and response.
C1_SupersededNeverWrites ==
    [][\A a \in Attempts :
          (Completes(a) /\ a < nAtt) =>
              UNCHANGED <<data, error, statusCode, response>>]_vars

\* C2: the completion handler of a cancelled attempt leaves loading alone, calls
\* none of onFinish, onError and the global error handler, and arms no poll timer.
C2_CancelledCompletionIsSilent ==
    [][\A a \in Attempts :
          (Completes(a) /\ aborted[a]) =>
              UNCHANGED <<loading, nFinish, nOnError, nGlobalErr, pollTimer, leaked>>]_vars

\* ---------------------------------------------------------------- claims, part 2
Outstanding(r) == rq[r].st \in {"payload", "refreshing", "callback"}

Waiting(r) == Outstanding(r) \/ rq[r].st = "queued"

\* C3: at most one token-refresh network call is in flight at any time.
C3_OneRefreshInFlight ==
    Cardinality({r \in Req : rq[r].st = "refreshing"}) <= 1

\* C4: a request that receives 401 while a refresh is outstanding starts no second
\* refresh, and when the refresh succeeds every request waiting on it and the
\* initiator are re-issued carrying the refreshed token.
C4_OneRefreshAllRetried ==
    [][\A r \in Req :
          /\ (Outstanding(r) /\ \E q \in Req : q # r /\ ~Outstanding(q) /\ Outstanding(q)')
                 => FALSE
          /\ (rq[r].st = "callback" /\ rq'[r].st = "inflight") =>
                 /\ rq'[r].hdr = rq[r].tok
                 /\ \A q \in Req : rq[q].st = "queued" =>
                        rq'[q].st = "inflight" /\ rq'[q].hdr = rq[r].tok]_vars

\* C5: when the refresh attempt of initiator r fails, the stored tokens are cleared,
\* onTokenRefreshFailed is called once, and the initiator and every queued request
\* reject.
C5_RefreshFailureRejectsAll ==
    [][\A r \in Req :
          (Outstanding(r) /\ rq'[r].st = "rejected") =>
              /\ accessToken' = 0
              /\ nFailedCb' = nFailedCb + 1
              /\ \A q \in Req : rq[q].st = "queued" => rq'[q].st = "rejected"]_vars

\* C6: no request is left pending for ever by the refresh flow: every request that
\* waits in the 401 handler, as the initiator or as a queued entry, eventually
\* leaves it (is re-issued, resolves or rejects), whatever the refresh outcome or
\* the value it failed with; and when the initiator's handler settles, isRefreshing
\* is false and the queue is empty.
C6_NoStuckRequest ==
    /\ \A r \in Req : [](Waiting(r) => <>~Waiting(r))
    /\ [][\A r \in Req :
             (Outstanding(r) /\ ~Outstanding(r)') =>
                 ~isRefreshing' /\ failedQueue' = <<>>]_vars

\* C7: on refresh success the new token is stored when the retries are issued; the
\* queued requests are re-issued in queue order, then the initiator, all carrying
\* the new token.
C7_RetriesFifoWithNewToken ==
    [][\A r \in Req :
          (rq[r].st = "callback" /\ rq'[r].st = "inflight") =>
              /\ accessToken' = rq[r].tok
              /\ Len(lastRetries') = Len(failedQueue) + 1
              /\ \A i \in 1..Len(failedQueue) :
                     lastRetries'[i] = [req |-> failedQueue[i], hdr |-> rq[r].tok]
              /\ lastRetries'[Len(failedQueue) + 1] = [req |-> r, hdr |-> rq[r].tok]]_vars

\* ---------------------------------------------------------------- claims, part 3
\* The step in which the promise of run k's execute() settles.
Concludes(k) == runSt[k] = "running" /\ runSt'[k] # "running"

\* the items of run k whose transport call resolved with data / rejected
SucceededCalls(k) == {i \in Idx : outs[k][i] = "data"}

FailedCalls(k) == {i \in Idx : outs[k][i] = "error"}

\* Run k was left to complete: no abort(), reset() or other execute() while it was
\* pending, and every transport call resolved with data or rejected.
LeftToComplete(k) ==
    /\ ~overlapped[k]
    /\ ~touched[k]
    /\ \A i \in Idx : outs[k][i] \in {"data", "error"}

\* What C8 says of a concluded run: resolved with one item per URL, successfulData
\* of length s, errors of length f, progress {N, N, 100, s, f}.
SettledTotals(k) ==
    /\ runSt[k] = "resolved"
    /\ \A i \in Idx : results[k][i].index = i
    /\ bData = results[k]
    /\ Cardinality(SuccessfulData(bData)) = Cardinality(SucceededCalls(k))
    /\ Len(bErrors) = Cardinality(FailedCalls(k))
    /\ progress = [completed |-> nUrls, total |-> nUrls, percentage |-> 100,
                   succeeded |-> Cardinality(SucceededCalls(k)),
                   failed |-> Cardinality(FailedCalls(k))]

\* C8 (as stated): in settled mode, for N URLs of which f fail and s = N - f
\* succeed, a run left to complete resolves (never rejects) with N items,
\* successfulData of length s, errors of length f and final progress
\* {completed: N, total: N, percentage: 100, succeeded: s, failed: f}, for
\* unbounded and bounded concurrency alike - for every N, N = 0 included.
C8_SettledTotals ==
    [][\A k \in Runs :
          (settled /\ Concludes(k) /\ LeftToComplete(k)') => SettledTotals(k)']_vars

\* C8 (amended): the same for every N >= 1; for N = 0 the percentage is 0.
C8_SettledTotalsNonEmpty ==
    [][\A k \in Runs :
          (settled /\ Concludes(k) /\ LeftToComplete(k)') =>
              IF nUrls >= 1 THEN SettledTotals(k)'
              ELSE /\ runSt'[k] = "resolved"
                   /\ bData' = <<>>
                   /\ bErrors' = <<>>
                   /\ progress' = [completed |-> 0, total |-> 0, percentage |-> 0,
                                   succeeded |-> 0, failed |-> 0]]_vars

\* a bounded settled run, left to complete, with a success and a failure, resolved
C8_Witness ==
    /\ settled
    /\ ~Unbounded
    /\ runSt[1] = "resolved"
    /\ LeftToComplete(1)
    /\ SucceededCalls(1) # {}
    /\ FailedCalls(1) # {}
    /\ bData = results[1]
    /\ progress.percentage = 100

\* C9: whenever execute() resolves, its result and data hold one item per input
\* URL, item i with index i and url urls[i], for every interleaving of completions
\* and abort() calls.
C9_OneItemPerUrl ==
    [][\A k \in Runs :
          (Concludes(k) /\ runSt'[k] = "resolved") =>
              /\ \A i \in Idx : results'[k][i].index = i /\ results'[k][i].url = UrlOf(i)
              /\ bData' = results'[k]]_vars

HasFailure(k) == firstFailure[k] # NoError

\* C10: with settled = false, execute() rejects when its first item carrying an
\* error settles, with that item's error, which is also stored in error; and from
\* that failure on the run, when no other execute() overlaps it, starts no request
\* beyond those already in flight.
C10_StrictRejectsOnFirstFailure ==
    [][\A k \in Runs :
          ~settled =>
              /\ (~HasFailure(k) /\ HasFailure(k)') =>
                     /\ runSt'[k] = "rejected"
                     /\ bError' = firstFailure'[k]
              /\ runSt'[k] = "rejected" =>
                     HasFailure(k)' /\ rejected'[k] = firstFailure'[k]
              /\ (HasFailure(k)' /\ ~overlapped'[k]) =>
                     \A i \in Idx : ~(item[k][i] = "unclaimed" /\ item'[k][i] = "inflight")]_vars

\* a bounded strict run rejected with the error of a failed item while another
\* item was in flight and a further one was never started
C10_Witness ==
    /\ ~settled
    /\ ~Unbounded
    /\ runSt[1] = "rejected"
    /\ ~overlapped[1]
    /\ rejected[1].code = "API"
    /\ bError = rejected[1]
    /\ \E i \in Idx : item[1][i] = "unclaimed"
    /\ \E i \in Idx : item[1][i] = "inflight"

\* ---------------------------------------------------------------- claims, part 4
\* C11: batch abort(), called by the user or by the strict-mode first-failure
\* path, cancels the transport call of every item still in flight: an in-flight
\* item whose controller has been aborted has its transport call told to abort.
C11_AbortCancelsTransport ==
    \A k \in Runs : \A i \in Idx :
        (item[k][i] = "inflight" /\ <<k, i>> \in ctrlAborted) => TransportCancelled(k, i)
\* Items of run k whose transport call is outstanding
InFlight(k) == {i \in Idx : item[k][i] = "inflight"}

\* C12: with a concurrency limit L < N a run never has more than L item requests
\* in flight, no URL index is requested more than once in a run, and a run that
\* resolves without abort() having been called while it was pending has requested
\* every URL index exactly once.
C12_BoundedWorkers ==
    /\ [](\A k \in Runs : ~Unbounded => Cardinality(InFlight(k)) <= concurrency)
    /\ [](\A k \in Runs : \A i \in Idx : requested[k][i] <= 1)
    /\ [][\A k \in Runs :
             (~Unbounded /\ Concludes(k) /\ runSt'[k] = "resolved" /\ ~touched'[k])
                 => \A i \in Idx : requested'[k][i] = 1]_vars

\* a bounded run with every worker busy after a worker has claimed a further index
C12_Witness ==
    /\ ~Unbounded
    /\ Cardinality(InFlight(1)) = concurrency
    /\ concurrency > 1
    /\ \E i \in Idx : item[1][i] = "done"
    /\ \E i \in InFlight(1) : i >= concurrency
\* =========================================================================
\*  Claims about useApi: global abort, polling, visibility
\* =========================================================================

\* C13: when abort() of the global abort registry is called while an attempt of an
\* instance with useGlobalAbort is outstanding, that attempt's own controller is
\* aborted.
C13_GlobalAbortCancels ==
    [][(useGlobalAbort /\ abortCount' = abortCount + 1)
          => \A a \in Attempts : att[a] = "inflight" => aborted'[a]]_vars

\* Poll timers that will still fire
PendingTimers == (IF pollTimer = "live" THEN 1 ELSE 0) + leaked

\* Attempts awaiting their transport call whose controller has not been aborted
LiveAttempts == {a \in Attempts : att[a] = "inflight" /\ ~aborted[a]}

\* C14: no poll timer is pending while an attempt of the instance is in flight, at
\* most one poll timer is pending, and no two poll-triggered attempts are in flight
\* together.
C14_PollArmedOnlyAfterFinish ==
    /\ PendingTimers > 0 => LiveAttempts = {}
    /\ PendingTimers <= 1
    /\ Cardinality({a \in LiveAttempts : origin[a] = "poll"}) <= 1

\* An attempt is started on behalf of a poll timer in this step
PollRequestIssued == \E a \in Attempts : origin[a] = "none" /\ origin'[a] = "poll"

\* A poll timer's callback calls execute() in this step: executeRequest runs, or
\* the debounced wrapper takes the call
PollExecuteCalled ==
    \/ PollRequestIssued
    \/ nCalls' = nCalls + 1 /\ dCall'[nCalls'].src = "poll"

\* C15: with whenHidden false no request is issued on behalf of a poll timer while
\* the document is hidden; with whenHidden true and an interval > 0 polling goes on
\* whatever the visibility: every attempt that finishes without having been
\* cancelled arms the poll timer, and the timer the handle names, when it fires,
\* calls execute().
C15_PollingAndVisibility ==
    /\ [](\A a \in startedHidden : origin[a] = "poll" => whenHidden)
    /\ [][(whenHidden /\ pollInterval > 0)
             => /\ nFinish' = nFinish + 1 => pollTimer' = "live"
                /\ (pollTimer = "live" /\ pollTimer' = "null") => PollExecuteCalled]_vars

\* C16: when the document becomes visible while polling is enabled and the instance
\* is idle (no attempt awaits its transport call, no poll timer is pending), the
\* visibility handler starts a catch-up attempt in the same step.
C16_CatchUpOnVisible ==
    [][(/\ docHidden /\ ~docHidden'
        /\ pollInterval > 0
        /\ \A a \in Attempts : att[a] # "inflight"
        /\ PendingTimers = 0)
          => \E a \in Attempts : origin[a] = "none" /\ origin'[a] = "visible"]_vars

\* =========================================================================
\*  Claims about the debounced execute
\* =========================================================================

\* Calls of the debounced execute whose timer will still fire
PendingCalls == {c \in Calls : dCall[c].timer = "pending"}

\* C17: in a burst of debounced execute() calls, each arriving while the timer of
\* the call before it is still pending, only the timer of the last call fires: a
\* call that arrives while a debounce timer is pending cancels that timer, so at
\* most one debounce timer is pending and a burst ends in one transport call.
C17_BurstCollapsesToOneCall ==
    /\ [][\A c \in PendingCalls : nCalls' = nCalls + 1 => dCall'[c].timer = "cleared"]_vars
    /\ [](Cardinality(PendingCalls) <= 1)

\* The invocation call c was collapsed into: the executeRequest call made by the
\* timer of the first later call whose timer was not cleared (0 = none yet).
RECURSIVE InvocationOf(_)
InvocationOf(c) ==
    IF c \notin Calls \/ dCall[c].timer \in {"none", "pending"} THEN 0
    ELSE IF dCall[c].timer = "fired" THEN dCall[c].attempt
    ELSE InvocationOf(c + 1)

\* C18: the promise of a debounced execute() call is resolved once the invocation
\* the call was collapsed into has returned, the calls whose timer was cancelled
\* included; a promise that is still pending belongs to a call whose timer or
\* invocation is still outstanding.
C18_EveryCallerResolves ==
    \A c \in Calls :
        (InvocationOf(c) # 0 /\ att[InvocationOf(c)] = "done") => dCall[c].resolved

\* =========================================================================
\*  Claims about disposal and abort()
\* =========================================================================

\* C19: when the owning scope is disposed, the controller of the current attempt
\* is aborted and the poll timer the handle names is cleared; after disposal the
\* instance starts no attempt, whether from a poll timer, a debounce timer or the
\* visibility handler.
C19_NothingAfterDispose ==
    [][/\ (~disposed /\ disposed')
          => /\ abortController # 0 => aborted'[abortController]
             /\ pollTimer' # "live"
       /\ disposed => nAtt' = nAtt]_vars

\* C20: abort() aborts the controller of the current attempt and clears the poll
\* timer the handle names; from then until executeRequest runs again for a new
\* execute() (abortController.value is null in between) the completion of an
\* attempt writes none of data, response, error and statusCode, and no attempt is
\* started by a poll timer.
C20_AbortStopsAttemptAndPolling ==
    [][/\ (abortController # 0 /\ abortController' = 0)
          => aborted'[abortController] /\ pollTimer' # "live"
       /\ abortController = 0
          => /\ \A a \in Attempts :
                   Completes(a) => UNCHANGED <<data, response, error, statusCode>>
             /\ ~PollRequestIssued]_vars

\* =========================================================================
\*  Claims about useApi: reset, outcomes, hooks, retry
\* =========================================================================

\* The values state.reset() and setLoading(false) leave
ResetState ==
    data = 0 /\ error = 0 /\ statusCode = 0 /\ response = 0 /\ ~loading

\* C21: reset() leaves data = initialData, error, statusCode and response null and
\* loading false and abortController.value null; until executeRequest runs for
\* the next execute() (abortController.value stays null in between) no step
\* changes these values, the completion of the attempt reset() aborted included.
C21_ResetStateStays ==
    [][(abortController = 0 /\ abortController' = 0 /\ ResetState) => ResetState']_vars

\* onSuccess has run for attempt a: its transport call resolved
Succeeded(a) == \E n \in DOMAIN hooks[a] : hooks[a][n] = "onSuccess"

\* C22: the promise of an attempt is never rejected; when the transport call
\* resolves, the promise resolves with the response data and data and statusCode
\* hold that response, error is null and loading false; when it fails and the
\* attempt was not cancelled, the promise resolves with null, error holds the
\* attempt's parsed error and loading is false.
C22_OutcomeOfExecute ==
    /\ [](\A a \in Attempts : returned[a] # "rejected")
    /\ [][\A a \in Attempts : Completes(a) =>
             /\ returned'[a] \in {"data", "null"}
             /\ Succeeded(a)' =>
                   /\ returned'[a] = "data"
                   /\ data' = a /\ statusCode' = a /\ error' = 0 /\ ~loading'
             /\ (~Succeeded(a)' /\ ~aborted[a]) =>
                   /\ returned'[a] = "null"
                   /\ error' = a /\ ~loading']_vars

\* one attempt has resolved with its data and a later one has failed, uncancelled
C22_Witness ==
    \E a, b \in Attempts :
        /\ a < b
        /\ returned[a] = "data" /\ Succeeded(a)
        /\ returned[b] = "null" /\ Len(sent[b]) = 1 /\ ~aborted[b] /\ error = b /\ ~loading

\* executeRequest starts attempt a in this step
Starts(a) == att[a] = "none" /\ att'[a] # "none"

\* C23: an executeRequest that finds the url source undefined or empty makes no
\* transport call, resolves with null and leaves error = the attempt's "Request
\* URL is missing" error and loading false; one that finds it defined makes one
\* transport call, with the value the source has at that moment.
C23_MissingUrl ==
    [][\A a \in Attempts : Starts(a) =>
          IF requestUrl = 0
          THEN /\ sent'[a] = <<>>
               /\ returned'[a] = "null"
               /\ error' = a /\ ~loading'
          ELSE sent'[a] = <<requestUrl>>]_vars

\* an execute() with the url undefined, then one after the source became defined
C23_Witness ==
    \E a, b \in Attempts :
        /\ a < b
        /\ sent[a] = <<>> /\ returned[a] = "null"
        /\ sent[b] = <<requestUrl>> /\ requestUrl # 0 /\ att[b] = "inflight"

\* The watcher of `poll` runs in this step
WatcherRuns == WatcherPending /\ pollSeen' = pollInterval

\* C24: when the watcher runs for a changed interval, the timer the handle names is
\* cancelled; if the new interval is > 0 and no attempt is in flight, a request is
\* started in the same step; a timer armed later has the interval current when it
\* is armed; and once the watcher has run for an interval of 0, no request is
\* started on behalf of a poll timer while the interval stays 0.
C24_PollIntervalChange ==
    [][/\ WatcherRuns =>
             /\ pollTimer = "live" => (pollTimer' # "live" /\ leaked' = leaked)
             /\ (pollInterval > 0 /\ \A a \in Attempts : att[a] # "inflight")
                   => \E a \in Attempts : Starts(a)
       /\ (pollTimer' = "live" /\ nFinish' # nFinish) => interval' = pollInterval
       /\ (pollInterval = 0 /\ pollSeen = 0) => ~PollRequestIssued]_vars

\* The hook sequences of an attempt that ran to its end
HookOrders ==
    {<<"onBefore", "onSuccess", "onFinish">>, <<"onBefore", "onError", "onFinish">>}

\* C25: the hooks an attempt has invoked so far are the beginning of onBefore, one
\* of onSuccess / onError, onFinish; and an attempt whose executeRequest has
\* returned has invoked all three, onFinish once.
C25_HookOrder ==
    \A a \in Attempts :
        /\ \E o \in HookOrders : \E n \in 0..3 : hooks[a] = SubSeq(o, 1, n)
        /\ att[a] = "done" => hooks[a] \in HookOrders

\* onError has run for attempt a: its error has been reported
Reported(a) == \E n \in DOMAIN hooks[a] : hooks[a][n] = "onError"

\* C26: an attempt makes at most retry + 1 transport calls; the error of a failed
\* transport call is reported only after retry + 1 calls have been made; and with
\* retry = false an attempt that reaches the transport makes exactly one call.
C26_RetryBeforeReport ==
    \A a \in Attempts :
        /\ Len(sent[a]) <= retry + 1
        /\ (Reported(a) /\ sent[a] # <<>>) => Len(sent[a]) = retry + 1
        /\ (retry = 0 /\ att[a] = "inflight") => Len(sent[a]) = 1

\* =========================================================================
\*  Claims about useApiBatch: progress, error, loading
\* =========================================================================
\* An item of a run settles in this step
ItemSettles == \E k \in Runs : \E i \in Idx : item[k][i] = "inflight" /\ item'[k][i] = "done"

\* p is x = 100 * completed / total rounded as Math.round does: p <= x + 1/2 < p + 1
RoundedPercent(p, completed, total) ==
    /\ 2 * p * total <= 200 * completed + total
    /\ 200 * completed + total < 2 * (p + 1) * total

\* C27: progress always has completed = succeeded + failed, 0 <= completed <=
\* total, and a percentage within 0..100 that is completed / total * 100 rounded,
\* 0 for total = 0; and every item that settles makes one update, which raises
\* completed by exactly one.
C27_ProgressPerItem ==
    /\ [](/\ progress.completed = progress.succeeded + progress.failed
          /\ progress.completed \in 0..progress.total
          /\ progress.percentage \in 0..100
          /\ IF progress.total = 0 THEN progress.percentage = 0
             ELSE RoundedPercent(progress.percentage, progress.completed, progress.total))
    /\ [][ItemSettles => progress'.completed = progress.completed + 1]_vars

\* The promise of run k's execute() is fulfilled in this step
Resolves(k) == runSt[k] = "running" /\ runSt'[k] = "resolved"

\* The indices of the result items a run has stored
ItemsOf(res) == {i \in DOMAIN res : res[i] # Hole}

\* C28: when a settled-mode execute() resolves, error is the synthesized
\* all-requests-failed error if the URL list is not empty and every result item
\* has success = false, and null otherwise; and errors holds the error of every
\* result item that carries one.
C28_AllFailedError ==
    [][\A k \in Runs : (settled /\ Resolves(k)) =>
          LET res == results'[k]
          IN  /\ bError' = IF nUrls > 0 /\ \A i \in ItemsOf(res) : ~res[i].success
                           THEN AllFailedError(k) ELSE NoError
              /\ \A i \in ItemsOf(res) :
                    res[i].error # NoError
                       => \E n \in DOMAIN bErrors' : bErrors'[n] = res[i].error]_vars

\* C29: loading is true exactly while a run of the batch is pending: from
\* execute() until every item it started has settled.
C29_LoadingWhilePending == bLoading <=> \E k \in Runs : Pending(k)

\* =========================================================================
\*  Claims about the request interceptor
\* =========================================================================
\* Request r is handed to the transport in this step (first send or retry)
Sent(r) == rq'[r].st = "inflight" /\ rq[r].st # "inflight"

\* C30: a request that is not public is sent with the Authorization header of the
\* access token stored at that moment, when one is stored; a public request is
\* sent without an Authorization header and never has one, before and after a
\* refresh.
C30_AuthorizationHeader ==
    /\ [][\A r \in Req : Sent(r) =>
             IF rq'[r].mode = "public"
             THEN rq'[r].hdr = 0
             ELSE accessToken # 0 => rq'[r].hdr = accessToken]_vars
    /\ [](\A r \in Req : rq[r].mode = "public" => rq[r].hdr = 0)

\* after a refresh, a retried request carries the new token while a public
\* request is in flight without a header
C30_Witness ==
    \E r, p \in Req :
        /\ rq[r].retry /\ rq[r].st = "inflight"
        /\ accessToken \in NewTokens /\ rq[r].hdr = accessToken
        /\ rq[p].mode = "public" /\ rq[p].st = "inflight" /\ rq[p].hdr = 0

\* The requests whose handler is running a refresh
Initiators == {i \in Req : rq[i].st \in {"payload", "refreshing", "callback"}}

\* The tokens a refresh in progress is replacing: those its initiator was sent with
StaleTokens == {rq[i].hdr : i \in Initiators} \ {0}

\* C31: while a refresh is in progress no new request is transmitted with the
\* token that refresh is replacing.
C31_NoSendWithStaleToken ==
    [][\A r \in Req : (isRefreshing /\ rq[r].st = "new" /\ Sent(r))
                          => rq'[r].hdr \notin StaleTokens]_vars

\* =========================================================================
\*  Claims about useApi: hosts without a document, loading, global abort
\* =========================================================================
\* C32: without a document, whatever whenHidden is, every attempt that finishes
\* without having been cancelled while the interval is > 0 arms the poll timer,
\* and the timer the handle names, when it fires, calls execute().
C32_PollingWithoutDocument ==
    [][(~hasDocument /\ pollInterval > 0)
          => /\ nFinish' = nFinish + 1 => pollTimer' = "live"
             /\ (pollTimer = "live" /\ pollTimer' = "null") => PollExecuteCalled]_vars

\* C33: the generation counter never decreases and a step raises it by at most
\* one; the abort() that raises it cancels no attempt that has not started yet;
\* an attempt that starts afterwards subscribes to the registry's current signal,
\* with the current generation, and starts not cancelled; and no handler stays
\* registered on a signal of an earlier generation.
C33_FreshTokenAfterGlobalAbort ==
    /\ [][/\ abortCount' \in {abortCount, abortCount + 1}
          /\ \A a \in Attempts :
                /\ (abortCount' # abortCount /\ att[a] = "none") => ~aborted'[a]
                /\ (Starts(a) /\ att'[a] = "inflight")
                      => /\ ~aborted'[a]
                         /\ useGlobalAbort => <<a, abortCount>> \in globalHandlers']_vars
    /\ [](\A h \in globalHandlers : h[2] = abortCount)

\* an attempt started after the registry's abort() is in flight, not cancelled,
\* although an earlier attempt of the instance exists
C33_Witness ==
    \E a, b \in Attempts :
        /\ a < b /\ abortCount > 0
        /\ att[a] # "none" /\ att[b] = "inflight" /\ ~aborted[b]
        /\ <<b, abortCount>> \in globalHandlers

Earlier(k) == k < nRuns \/ wasReset[k]

\* C35: a step in which an item of an earlier run settles changes neither errors,
\* progress, data nor loading, and issues no further request for that run.
C35_EarlierRunIsInert ==
    [][\A k \in Runs :
          (Earlier(k) /\ \E i \in Idx : item[k][i] = "inflight" /\ item'[k][i] = "done")
             => /\ bErrors' = bErrors
                /\ progress' = progress
                /\ bData' = bData
                /\ bLoading' = bLoading
                /\ requested'[k] = requested[k]]_vars

\* =========================================================================
\*  Claims about the refresh interceptor: re-issued and terminal failures
\* =========================================================================
\* C36: a request the interceptor has already re-issued never becomes a refresh
\* initiator and is never queued again: its next failure rejects it.
C36_ReissuedAtMostOnce ==
    [][\A r \in Req :
          (rq[r].reissued /\ rq[r].st = "inflight")
             => /\ rq'[r].st \in {"inflight", "resolved", "rejected"}
                /\ rq'[r].st = "rejected" =>
                       (isRefreshing' = isRefreshing /\ failedQueue' = failedQueue)]_vars

\* =========================================================================
\*  Claims about useApi: loading, debounce timers
\* =========================================================================
\* C37: loading is true only while an attempt is in flight: with every attempt
\* completed or cancelled, loading is false.
C37_LoadingOnlyInFlight ==
    (\A a \in Attempts : att[a] # "inflight") => ~loading

\* C38: at most one debounce timer is pending at any time, and a timer that fires
\* is that of the latest call: of two calls made while the timer of the first was
\* pending, the first never reaches the transport, whether or not an earlier
\* debounced invocation is in flight.
C38_OnePendingTimer ==
    /\ [](\A c, d \in PendingCalls : c = d)
    /\ [][\A c \in Calls :
             (dCall[c].timer = "pending" /\ dCall'[c].timer = "fired") => c = nCalls]_vars

\* C39: a failed response that is not a 401, or whose request is marked retried
\* or has authMode public or optional, rejects that request and nothing else: no
\* refresh is started or called, nothing is queued, no other request changes, and
\* the stored token and the in-progress flag keep their values.
C39_PropagatedUntouched ==
    [][\A r \in Req :
          /\ \A status \in {401, 500} :
                (/\ RespondError(r, status)
                 /\ (status # 401 \/ rq[r].retry \/ rq[r].mode \in {"public", "optional"}))
                    => /\ rq' = [rq EXCEPT ![r].st = "rejected"]
                       /\ UNCHANGED <<failedQueue, isRefreshing, accessToken,
                                      nRefreshCalls, nFailedCb>>
          /\ (/\ rq[r].st = "inflight"
              /\ (rq[r].retry \/ rq[r].mode \in {"public", "optional"}))
                => rq'[r].st \in {"inflight", "resolved", "rejected"}]_vars

\* A retried request was rejected on its second 401 while another request's
\* refresh is in progress with a request queued and a refreshed token stored.
C39_Witness ==
    \E r \in Req :
        /\ rq[r].retry /\ rq[r].reissued /\ rq[r].st = "rejected"
        /\ rq[r].tok \in NewTokens /\ rq[r].hdr = rq[r].tok
        /\ isRefreshing /\ failedQueue # <<>> /\ accessToken \in NewTokens

\* C40: the item stored when a request of a batch settles is marked success exactly
\* when its transport call resolved (with or without a body) and the item was not
\* aborted; a failed item has an error, and errors gains exactly that one entry.
C40_ItemSuccessAndErrors ==
    [][\A k \in Runs : \A i \in Idx :
          (item[k][i] = "inflight" /\ item'[k][i] = "done")
             => LET r == results'[k][i]
                    o == outs'[k][i]
                IN  /\ r.success <=> o \in {"data", "nullbody"}
                    /\ r.success => bErrors' = bErrors
                    /\ ~r.success => /\ r.error # NoError
                                     /\ bErrors' = Append(bErrors, r.error)]_vars
====
